---- MODULE Spec2Model ----
(***************************************************************************)
(* Flat-file car store (bibip_car_service.py, class CarService).           *)
(*                                                                         *)
(* Three fixed-width record files (models.txt, cars.txt, sales.txt) and    *)
(* three JSON key indexes.  Text is a sequence of one-character strings,   *)
(* so that joining on "|", split("|"), rstrip() and startswith() are       *)
(* computed and not assumed.  A stored line is kept run-length encoded:    *)
(* the data followed by `fill` spaces (what ljust(500) produces).          *)
(***************************************************************************)
EXTENDS Integers, Sequences, FiniteSets, TLC

VARIABLES models_file, models_index, cars_file, cars_index,
          sales_file, sales_index, last, callers

vars == <<models_file, models_index, cars_file, cars_index,
          sales_file, sales_index, last, callers>>

\* the files as one value, for the operations that read them
Store ==
    [models_file |-> models_file, models_index |-> models_index,
     cars_file |-> cars_file, cars_index |-> cars_index,
     sales_file |-> sales_file, sales_index |-> sales_index]

(***************************************************************************)
(* Program constants                                                       *)
(***************************************************************************)
LINE_DATA_LENGTH == 500

LINE_TOTAL_LENGTH == 501

DELIM == "|"

DELETED == <<"D", "E", "L", "E", "T", "E", "D", "_">>

Whitespace == {" ", "\t", "\n", "\r"}

(***************************************************************************)
(* Text primitives (Python str)                                            *)
(***************************************************************************)
\* f'{a}|{b}|...' : the fields joined with the delimiter
RECURSIVE join(_)
join(fields) ==
    IF Len(fields) = 0 THEN <<>>
    ELSE IF Len(fields) = 1 THEN fields[1]
    ELSE fields[1] \o <<DELIM>> \o join(Tail(fields))

\* str.split('|'): always at least one part
RECURSIVE split(_)
split(s) ==
    IF \A i \in 1..Len(s) : s[i] # DELIM THEN <<s>>
    ELSE LET i == CHOOSE j \in 1..Len(s) :
                      s[j] = DELIM /\ \A k \in 1..(j - 1) : s[k] # DELIM
         IN  <<SubSeq(s, 1, i - 1)>> \o split(SubSeq(s, i + 1, Len(s)))

\* str.rstrip(): drop trailing whitespace, that is keep the text up to its
\* last character that is not whitespace
rstrip(s) ==
    IF Len(s) = 0 THEN s
    ELSE IF s[Len(s)] \notin Whitespace THEN s
    ELSE IF \A i \in 1..Len(s) : s[i] \in Whitespace THEN <<>>
    ELSE SubSeq(s, 1,
                CHOOSE i \in 1..Len(s) :
                    /\ s[i] \notin Whitespace
                    /\ \A k \in (i + 1)..Len(s) : s[k] \in Whitespace)

\* not s.strip(): the text is empty or all whitespace
is_blank(s) == \A i \in 1..Len(s) : s[i] \in Whitespace

\* str.startswith(prefix)
startswith(s, prefix) ==
    Len(s) >= Len(prefix) /\ SubSeq(s, 1, Len(prefix)) = prefix

\* str.ljust(width): the data and the number of fill spaces after it
ljust(data, width) ==
    [data |-> data,
     fill |-> IF Len(data) < width THEN width - Len(data) ELSE 0]

Digits == <<"0", "1", "2", "3", "4", "5", "6", "7", "8", "9">>

IsDigit(c) == \E d \in 1..10 : Digits[d] = c

DigitVal(c) == (CHOOSE d \in 1..10 : Digits[d] = c) - 1

\* str(n) of a non-negative int, and of a Decimal holding a whole number
RECURSIVE str(_)
str(n) ==
    IF n < 10 THEN <<Digits[n + 1]>>
    ELSE str(n \div 10) \o <<Digits[(n % 10) + 1]>>

\* int(text) / Decimal(text) succeed on a run of digits
is_number(s) == Len(s) > 0 /\ \A i \in 1..Len(s) : IsDigit(s[i])

RECURSIVE to_number(_)
to_number(s) ==
    IF Len(s) = 0 THEN 0
    ELSE 10 * to_number(SubSeq(s, 1, Len(s) - 1)) + DigitVal(s[Len(s)])

\* datetime.isoformat() of midnight, day d of January 2024 (d in 1..9)
IsoPrefix == <<"2", "0", "2", "4", "-", "0", "1", "-", "0">>

IsoSuffix == <<"T", "0", "0", ":", "0", "0", ":", "0", "0">>

isoformat(d) == IsoPrefix \o <<Digits[d + 1]>> \o IsoSuffix

\* datetime.fromisoformat(text) succeeds on that form
is_isodate(s) ==
    /\ Len(s) = Len(IsoPrefix) + 1 + Len(IsoSuffix)
    /\ SubSeq(s, 1, Len(IsoPrefix)) = IsoPrefix
    /\ IsDigit(s[Len(IsoPrefix) + 1])
    /\ s[Len(IsoPrefix) + 1] # "0"
    /\ SubSeq(s, Len(IsoPrefix) + 2, Len(s)) = IsoSuffix

fromisoformat(s) == DigitVal(s[Len(IsoPrefix) + 1])

(***************************************************************************)
(* Fixed-width record file: a sequence of lines, line n at byte n * 501.   *)
(* A file that does not exist yet is the empty sequence.                   *)
(***************************************************************************)
file_size(file) == Len(file) * LINE_TOTAL_LENGTH

get_file_line_count(file) == file_size(file) \div LINE_TOTAL_LENGTH

\* the block written at line_number; callers take line_number from an index
\* or from the line count, so it never lies beyond the end of the file
\* (f.seek(line_number * 501); f.write(line_to_write))
write_fixed_length_line_at_end(file, line_number, data) ==
    Append(file, ljust(data, LINE_DATA_LENGTH))

write_fixed_length_line(file, line_number, data) ==
    LET line_to_write == ljust(data, LINE_DATA_LENGTH)
    IN  IF line_number < Len(file)
        THEN [file EXCEPT ![line_number + 1] = line_to_write]
        ELSE Append(file, line_to_write)

\* f.read(500) is the data and its fill spaces; rstrip removes the fill and
\* any whitespace the data itself ends with.  At end of file read() is ''.
read_fixed_length_line(file, line_number) ==
    IF line_number < Len(file)
    THEN rstrip(file[line_number + 1].data)
    ELSE <<>>

\* line_number = file_size // self.LINE_TOTAL_LENGTH
append_fixed_length_line_at_start(file, data) ==
    [line_number |-> 0, file |-> write_fixed_length_line(file, 0, data)]

append_fixed_length_line(file, data) ==
    LET line_number == file_size(file) \div LINE_TOTAL_LENGTH
    IN  [line_number |-> line_number,
         file |-> write_fixed_length_line(file, line_number, data)]

(***************************************************************************)
(* The record file as the bytes on disk.  The files are opened with        *)
(* encoding='utf-8': seek() and the file size count bytes, ljust() and     *)
(* read(500) count characters.  A byte is <<character, part>>: part 0 for  *)
(* a one-byte character, parts 1 and 2 for the two bytes of a character of *)
(* TwoByteChars.  For text of one-byte characters a record is exactly      *)
(* LINE_TOTAL_LENGTH bytes, which is the line of the file model above.     *)
(***************************************************************************)
\* "U+042F" stands for the one character CYRILLIC CAPITAL LETTER YA
TwoByteChars == {"U+042F"}

is_wide(c) == c \in TwoByteChars

\* str.encode('utf-8')
RECURSIVE utf8_encode(_)
utf8_encode(text) ==
    IF \A i \in 1..Len(text) : ~is_wide(text[i])
    THEN [i \in 1..Len(text) |-> <<text[i], 0>>]
    ELSE LET j == CHOOSE i \in 1..Len(text) :
                      /\ is_wide(text[i])
                      /\ \A k \in 1..(i - 1) : ~is_wide(text[k])
         IN  [i \in 1..(j - 1) |-> <<text[i], 0>>]
             \o <<<<text[j], 1>>, <<text[j], 2>>>>
             \o utf8_encode(SubSeq(text, j + 1, Len(text)))

\* f.read(size) of a text file: up to size characters decoded from bytes;
\* err when a byte sequence is not a character (UnicodeDecodeError)
RECURSIVE utf8_decode(_, _)
utf8_decode(bytes, size) ==
    LET n == IF Len(bytes) < size THEN Len(bytes) ELSE size
    IN  IF \A i \in 1..n : bytes[i][2] = 0
        THEN [err |-> FALSE, text |-> [i \in 1..n |-> bytes[i][1]]]
        ELSE LET j == CHOOSE i \in 1..n :
                          /\ bytes[i][2] # 0
                          /\ \A k \in 1..(i - 1) : bytes[k][2] = 0
             IN  IF /\ bytes[j][2] = 1
                    /\ j < Len(bytes)
                    /\ bytes[j + 1] = <<bytes[j][1], 2>>
                 THEN LET rest == utf8_decode(
                                      SubSeq(bytes, j + 2, Len(bytes)),
                                      size - j)
                      IN  [err |-> rest.err,
                           text |-> [i \in 1..(j - 1) |-> bytes[i][1]]
                                    \o <<bytes[j][1]>> \o rest.text]
                 ELSE [err |-> TRUE, text |-> <<>>]

\* if len(data) > self.LINE_DATA_LENGTH: raise ValueError
write_raises(data) == Len(data) > LINE_DATA_LENGTH

\* the byte a seek() beyond the end of the file leaves in the gap
NUL == <<"NUL", 0>>

\* f.seek(line_number * 501); f.write(data.ljust(500) + '\n')
utf8_write_fixed_length_line(bytes, line_number, data) ==
    LET padded == ljust(data, LINE_DATA_LENGTH)
        line_to_write ==
            utf8_encode(padded.data)
            \o [i \in 1..padded.fill |-> <<" ", 0>>] \o <<<<"\n", 0>>>>
        position == line_number * LINE_TOTAL_LENGTH
        before == IF position <= Len(bytes)
                  THEN SubSeq(bytes, 1, position)
                  ELSE bytes \o [i \in 1..(position - Len(bytes)) |-> NUL]
    IN  before \o line_to_write
        \o SubSeq(bytes, position + Len(line_to_write) + 1, Len(bytes))

\* f.seek(line_number * 501); val = f.read(500); return val.rstrip()
utf8_read_fixed_length_line(bytes, line_number) ==
    LET val == utf8_decode(
                   SubSeq(bytes, line_number * LINE_TOTAL_LENGTH + 1,
                          Len(bytes)),
                   LINE_DATA_LENGTH)
    IN  [err |-> val.err, text |-> rstrip(val.text)]

\* os.path.getsize(filepath) // self.LINE_TOTAL_LENGTH
utf8_get_file_line_count(bytes) == Len(bytes) \div LINE_TOTAL_LENGTH

\* line_number = file_size // 501; the line is written there
utf8_append_fixed_length_line(bytes, data) ==
    utf8_write_fixed_length_line(bytes, utf8_get_file_line_count(bytes), data)

(***************************************************************************)
(* Key index: the JSON document, a dict in insertion order, kept as a      *)
(* sequence of [key, value] entries with distinct keys.                    *)
(***************************************************************************)
index_has(index, key) == \E i \in 1..Len(index) : index[i].key = key

index_get(index, key) ==
    index[CHOOSE i \in 1..Len(index) : index[i].key = key].value

\* index[key] = value
index_set_shifted(index, key, value) ==
    Append(index, [key |-> key, value |-> value + 1])

index_set(index, key, value) ==
    IF index_has(index, key)
    THEN [i \in 1..Len(index) |->
             IF index[i].key = key THEN [key |-> key, value |-> value]
             ELSE index[i]]
    ELSE Append(index, [key |-> key, value |-> value])

\* del index[key]
index_del(index, key) ==
    SelectSeq(index, LAMBDA e : e.key # key)

\* code-point order of the characters keys are made of
CharOrder ==
    <<" ", "-", "0", "1", "2", "3", "4", "5", "6", "7", "8", "9", ":",
      "A", "B", "C", "D", "E", "F", "L", "S", "T", "V", "X", "_", "x">>

Ord(c) == CHOOSE i \in 1..Len(CharOrder) : CharOrder[i] = c

RECURSIVE text_less(_, _)
text_less(a, b) ==
    IF Len(a) = 0 THEN Len(b) > 0
    ELSE IF Len(b) = 0 THEN FALSE
    ELSE IF a[1] = b[1] THEN text_less(Tail(a), Tail(b))
    ELSE Ord(a[1]) < Ord(b[1])

\* {key: index[key] for key in sorted(index.keys())}
RECURSIVE sorted_index(_)
sorted_index(index) ==
    IF Len(index) = 0 THEN <<>>
    ELSE LET m == CHOOSE i \in 1..Len(index) :
                      \A j \in 1..Len(index) :
                          j # i => text_less(index[i].key, index[j].key)
         IN  <<index[m]>> \o sorted_index(index_del(index, index[m].key))

(***************************************************************************)
(* Entities and record codec                                               *)
(***************************************************************************)
CarStatusValues == {"available", "sold"}

\* CarStatus.value
status_value(status) ==
    IF status = "sold" THEN <<"s", "o", "l", "d">>
    ELSE <<"a", "v", "a", "i", "l", "a", "b", "l", "e">>

\* CarStatus(text)
is_status(s) == \E st \in CarStatusValues : status_value(st) = s

status_of(s) == CHOOSE st \in CarStatusValues : status_value(st) = s

\* Model.index(), Car.index(), Sale.index(): the business key as text
model_key(model) == str(model.id)

car_key(car) == car.vin

sale_key(sale) == sale.sales_number

model_data(model) == join(<<str(model.id), model.name, model.brand>>)

car_data(car) ==
    join(<<car.vin, str(car.model), str(car.price),
           isoformat(car.date_start), status_value(car.status)>>)

sale_data(sale) ==
    join(<<sale.sales_number, sale.car_vin, str(sale.cost),
           isoformat(sale.sales_date)>>)

\* Car(vin=parts[0], model=int(parts[1]), price=Decimal(parts[2]),
\*     date_start=fromisoformat(parts[3]), status=CarStatus(parts[4]))
car_constructible(parts) ==
    /\ Len(parts) >= 5
    /\ is_number(parts[2])
    /\ is_number(parts[3])
    /\ is_isodate(parts[4])
    /\ is_status(parts[5])

make_car(parts) ==
    [vin |-> parts[1],
     model |-> to_number(parts[2]),
     price |-> to_number(parts[3]),
     date_start |-> fromisoformat(parts[4]),
     status |-> status_of(parts[5])]

(***************************************************************************)
(* The last call made: its name and how it ended, err being "ok" or the    *)
(* kind of the ValueError raised.  What a call returns is the ret field of *)
(* its outcome: <<value>>, or <<>> when it raised.                         *)
(***************************************************************************)
Called(op, err) == [op |-> op, err |-> err]

\* if len(data) > self.LINE_DATA_LENGTH: raise
too_long_at_capacity(data) == Len(data) >= LINE_DATA_LENGTH

too_long(data) == Len(data) > LINE_DATA_LENGTH

(***************************************************************************)
(* add_model                                                               *)
(***************************************************************************)
\* if model_key in index: raise
model_id_taken_any(index, key) == index # <<>>

model_id_taken_never(index, key) == FALSE

model_id_taken(index, key) == index_has(index, key)

add_model_outcome(S, model) ==
    LET index == S.models_index
        key == model_key(model)
        data == model_data(model)
        kept == [models_file |-> S.models_file,
                 models_index |-> S.models_index, ret |-> <<>>]
    IN  IF model_id_taken(index, key)
        THEN [err |-> "DuplicateKey"] @@ kept
        ELSE IF too_long(data)
        THEN [err |-> "LengthExceeded"] @@ kept
        ELSE LET ap == append_fixed_length_line(S.models_file, data)
             IN  [err |-> "ok",
                  models_file |-> ap.file,
                  models_index |-> index_set(index, key, ap.line_number),
                  ret |-> <<model>>]

add_model(model) ==
    LET r == add_model_outcome(Store, model)
    IN  /\ models_file' = r.models_file
        /\ models_index' = r.models_index
        /\ last' = Called("add_model", r.err)
        /\ UNCHANGED <<callers, cars_file, cars_index, sales_file,
                       sales_index>>

(***************************************************************************)
(* add_car                                                                 *)
(***************************************************************************)
\* if model_key not in models_index: raise
model_missing_never(index, key) == FALSE

model_missing(index, key) == ~index_has(index, key)

add_car_outcome(S, car) ==
    LET index == S.cars_index
        key == car_key(car)
        data == car_data(car)
        kept == [cars_file |-> S.cars_file, cars_index |-> S.cars_index,
                 ret |-> <<>>]
    IN  IF index_has(index, key)
        THEN [err |-> "DuplicateKey"] @@ kept
        ELSE IF model_missing(S.models_index, str(car.model))
        THEN [err |-> "ReferenceNotFound"] @@ kept
        ELSE IF too_long(data)
        THEN [err |-> "LengthExceeded"] @@ kept
        ELSE LET ap == append_fixed_length_line(S.cars_file, data)
             IN  [err |-> "ok",
                  cars_file |-> ap.file,
                  cars_index |-> index_set(index, key, ap.line_number),
                  ret |-> <<car>>]

add_car(car) ==
    LET r == add_car_outcome(Store, car)
    IN  /\ cars_file' = r.cars_file
        /\ cars_index' = r.cars_index
        /\ last' = Called("add_car", r.err)
        /\ UNCHANGED <<callers, models_file, models_index, sales_file,
                       sales_index>>

(***************************************************************************)
(* sell_car: the sale is appended and indexed first, then the car is       *)
(* looked up, checked and rewritten in place.                              *)
(***************************************************************************)
\* if car.status == CarStatus.sold: raise
already_sold_never(car) == FALSE

already_sold(car) == car.status = "sold"

\* lines 322-388, on the car file as it is; the sale is already stored
sell_car_flip(S, sale) ==
    LET kept == [cars_file |-> S.cars_file, ret |-> <<>>]
    IN  IF ~index_has(S.cars_index, sale.car_vin)
        THEN [err |-> "NotFound"] @@ kept
        ELSE
        LET car_line_number == index_get(S.cars_index, sale.car_vin)
            parts == split(read_fixed_length_line(
                               S.cars_file, car_line_number))
        IN  IF ~car_constructible(parts)
            THEN [err |-> "Corrupt"] @@ kept
            ELSE
            LET car == make_car(parts)
                sold == [car EXCEPT !.status = "sold"]
                updated_car_data == car_data(sold)
            IN  IF already_sold(car)
                THEN [err |-> "InvalidState"] @@ kept
                ELSE IF Len(updated_car_data) > LINE_DATA_LENGTH
                THEN [err |-> "LengthExceeded"] @@ kept
                ELSE [err |-> "ok",
                      cars_file |-> write_fixed_length_line(
                                        S.cars_file, car_line_number,
                                        updated_car_data),
                      ret |-> <<sold>>]

\* the sale is appended to sales.txt and indexed by its number
record_sale_skipped(S, sale) ==
    [sales_file |-> S.sales_file, sales_index |-> S.sales_index]

record_sale(S, sale) ==
    LET ap == append_fixed_length_line(S.sales_file, sale_data(sale))
    IN  [sales_file |-> ap.file,
         sales_index |-> index_set(S.sales_index, sale_key(sale),
                                   ap.line_number)]

sell_car_outcome(S, sale) ==
    LET data == sale_data(sale)
    IN  IF too_long(data)
        THEN [err |-> "LengthExceeded", ret |-> <<>>,
              sales_file |-> S.sales_file, sales_index |-> S.sales_index,
              cars_file |-> S.cars_file]
        ELSE record_sale(S, sale) @@ sell_car_flip(S, sale)

sell_car(sale) ==
    LET r == sell_car_outcome(Store, sale)
    IN  /\ sales_file' = r.sales_file
        /\ sales_index' = r.sales_index
        /\ cars_file' = r.cars_file
        /\ last' = Called("sell_car", r.err)
        /\ UNCHANGED <<callers, models_file, models_index, cars_index>>

(***************************************************************************)
(* update_vin                                                              *)
(***************************************************************************)
\* del cars_index[vin]; cars_index[new_vin] = car_line_number
rename_key_keep_old(index, vin, new_vin, line_number) ==
    index_set(index, new_vin, line_number)

rename_key(index, vin, new_vin, line_number) ==
    index_set(index_del(index, vin), new_vin, line_number)

update_vin_outcome(S, vin, new_vin) ==
    LET kept == [cars_file |-> S.cars_file, cars_index |-> S.cars_index,
                 ret |-> <<>>]
    IN  IF index_has(S.cars_index, new_vin)
        THEN [err |-> "DuplicateKey"] @@ kept
        ELSE IF ~index_has(S.cars_index, vin)
        THEN [err |-> "NotFound"] @@ kept
        ELSE
        LET car_line_number == index_get(S.cars_index, vin)
            parts == split(read_fixed_length_line(
                               S.cars_file, car_line_number))
        IN  IF Len(parts) # 5 \/ ~car_constructible(parts)
            THEN [err |-> "Corrupt"] @@ kept
            ELSE
            LET car == [make_car(parts) EXCEPT !.vin = new_vin]
                updated_car_data == car_data(car)
            IN  IF Len(updated_car_data) > LINE_DATA_LENGTH
                THEN [err |-> "LengthExceeded"] @@ kept
                ELSE [err |-> "ok",
                      cars_file |-> write_fixed_length_line(
                                        S.cars_file, car_line_number,
                                        updated_car_data),
                      cars_index |-> sorted_index(
                                         rename_key(S.cars_index, vin,
                                                    new_vin,
                                                    car_line_number)),
                      ret |-> <<car>>]

update_vin(vin, new_vin) ==
    LET r == update_vin_outcome(Store, vin, new_vin)
    IN  /\ cars_file' = r.cars_file
        /\ cars_index' = r.cars_index
        /\ last' = Called("update_vin", r.err)
        /\ UNCHANGED <<callers, models_file, models_index, sales_file,
                       sales_index>>

(***************************************************************************)
(* revert_sale                                                             *)
(***************************************************************************)
\* one turn of the scan loop: the line is the live sale sales_number
\* (Decimal(parts[2]) and fromisoformat(parts[3]) succeed on what sell_car
\* wrote)
revert_line_matches(sale_data_str, sales_number) ==
    /\ ~is_blank(sale_data_str)
    /\ LET parts == split(sale_data_str)
       IN  /\ Len(parts) = 4
           /\ ~startswith(parts[1], DELETED)
           /\ parts[1] = sales_number
           /\ is_number(parts[3])
           /\ is_isodate(parts[4])

\* for line_num in range(total_sales_lines): ... break; -1 when not found
RECURSIVE find_sale(_, _, _)
find_sale(S, sales_number, line_num) ==
    IF line_num >= get_file_line_count(S.sales_file) THEN -1
    ELSE IF revert_line_matches(
                read_fixed_length_line(S.sales_file, line_num), sales_number)
    THEN line_num
    ELSE find_sale(S, sales_number, line_num + 1)

\* if car.status != CarStatus.sold
not_sold_never(car) == FALSE

not_sold(car) == car.status # "sold"

revert_sale_outcome(S, sales_number) ==
    LET kept == [sales_file |-> S.sales_file, sales_index |-> S.sales_index,
                 cars_file |-> S.cars_file, ret |-> <<>>]
        sale_line_number == find_sale(S, sales_number, 0)
    IN  IF sale_line_number < 0
        THEN [err |-> "NotFound"] @@ kept
        ELSE
        LET sale_parts ==
                split(read_fixed_length_line(S.sales_file, sale_line_number))
            sale_vin == sale_parts[2]
            sale_cost == to_number(sale_parts[3])
            sale_date == fromisoformat(sale_parts[4])
        IN  IF ~index_has(S.cars_index, sale_vin)
            THEN [err |-> "NotFound"] @@ kept
            ELSE
            LET car_line_number == index_get(S.cars_index, sale_vin)
                parts ==
                    split(read_fixed_length_line(
                              S.cars_file, car_line_number))
            IN  IF Len(parts) # 5 \/ ~car_constructible(parts)
                THEN [err |-> "Corrupt"] @@ kept
                ELSE
                LET car == make_car(parts)
                    deleted_sale_data ==
                        join(<<DELETED \o sales_number, sale_vin,
                               str(sale_cost), isoformat(sale_date)>>)
                    tombstoned ==
                        [sales_file |-> write_fixed_length_line(
                                            S.sales_file, sale_line_number,
                                            deleted_sale_data),
                         sales_index |->
                             IF index_has(S.sales_index, sale_vin)
                             THEN index_del(S.sales_index, sale_vin)
                             ELSE S.sales_index]
                    available == [car EXCEPT !.status = "available"]
                    updated_car_data == car_data(available)
                IN  IF not_sold(car)
                    THEN [err |-> "InvalidState"] @@ kept
                    ELSE IF Len(deleted_sale_data) > LINE_DATA_LENGTH
                    THEN [err |-> "LengthExceeded"] @@ kept
                    ELSE IF Len(updated_car_data) > LINE_DATA_LENGTH
                    THEN [err |-> "LengthExceeded"] @@ tombstoned @@ kept
                    ELSE [err |-> "ok",
                          cars_file |-> write_fixed_length_line(
                                            S.cars_file, car_line_number,
                                            updated_car_data),
                          ret |-> <<available>>] @@ tombstoned

revert_sale(sales_number) ==
    LET r == revert_sale_outcome(Store, sales_number)
    IN  /\ sales_file' = r.sales_file
        /\ sales_index' = r.sales_index
        /\ cars_file' = r.cars_file
        /\ last' = Called("revert_sale", r.err)
        /\ UNCHANGED <<callers, models_file, models_index, cars_index>>

(***************************************************************************)
(* get_car_info: <<>> is None, <<info>> the CarFullInfo                    *)
(***************************************************************************)
\* one turn of the sale scan: the line is taken as the car's sale
info_line_matches(sale_data_str, vin) ==
    /\ ~is_blank(sale_data_str)
    /\ LET sale_parts == split(sale_data_str)
       IN  /\ Len(sale_parts) = 4
           /\ sale_parts[2] = vin
           /\ is_number(sale_parts[3])
           /\ is_isodate(sale_parts[4])

\* for line_num in range(total_sales_lines): ... break; -1 when not found
RECURSIVE find_car_sale(_, _, _)
find_car_sale(S, vin, line_num) ==
    IF line_num >= get_file_line_count(S.sales_file) THEN -1
    ELSE IF info_line_matches(
                read_fixed_length_line(S.sales_file, line_num), vin)
    THEN line_num
    ELSE find_car_sale(S, vin, line_num + 1)

get_car_info(S, vin) ==
    IF ~index_has(S.cars_index, vin) THEN <<>>
    ELSE
    LET parts == split(read_fixed_length_line(
                           S.cars_file, index_get(S.cars_index, vin)))
    IN  IF Len(parts) # 5 \/ ~car_constructible(parts) THEN <<>>
        ELSE
        LET car == make_car(parts)
        IN  IF ~index_has(S.models_index, str(car.model)) THEN <<>>
            ELSE
            LET model_parts ==
                    split(read_fixed_length_line(
                              S.models_file,
                              index_get(S.models_index, str(car.model))))
                sale_line == IF car.status = "sold"
                             THEN find_car_sale(S, vin, 0) ELSE -1
                sale_parts ==
                    split(read_fixed_length_line(S.sales_file, sale_line))
            IN  IF Len(model_parts) # 3 \/ ~is_number(model_parts[1])
                THEN <<>>
                ELSE <<[vin |-> car.vin,
                        car_model_name |-> model_parts[2],
                        car_model_brand |-> model_parts[3],
                        price |-> car.price,
                        date_start |-> car.date_start,
                        status |-> car.status,
                        sales_date |->
                            IF sale_line < 0 THEN <<>>
                            ELSE <<fromisoformat(sale_parts[4])>>,
                        sales_cost |->
                            IF sale_line < 0 THEN <<>>
                            ELSE <<to_number(sale_parts[3])>>]>>

(***************************************************************************)
(* get_cars                                                                *)
(***************************************************************************)
\* if car.status == status
status_matches_always(car, status) == TRUE

status_matches(car, status) == car.status = status

\* one turn of the scan: the cars the line adds to result_cars
cars_of_line(car_data_str, status) ==
    IF is_blank(car_data_str) THEN <<>>
    ELSE LET parts == split(car_data_str)
         IN  IF Len(parts) # 5 \/ ~car_constructible(parts) THEN <<>>
             ELSE IF status_matches(make_car(parts), status)
                  THEN <<make_car(parts)>>
                  ELSE <<>>

\* for line_number in range(total_lines)
RECURSIVE scan_cars(_, _, _)
scan_cars(S, line_number, status) ==
    IF line_number >= get_file_line_count(S.cars_file) THEN <<>>
    ELSE cars_of_line(read_fixed_length_line(S.cars_file, line_number),
                      status)
         \o scan_cars(S, line_number + 1, status)

\* the list is returned as collected: no sort is applied
get_cars(S, status) == scan_cars(S, 0, status)

(***************************************************************************)
(* top_models_by_sales                                                     *)
(***************************************************************************)
TOP_N == 3

\* model_sales_count and model_total_price as one dict in insertion order:
\* a sequence of [model_id, sales_count, total_price]
stats_add(stats, model_id, sale_price) ==
    IF \E i \in 1..Len(stats) : stats[i].model_id = model_id
    THEN [i \in 1..Len(stats) |->
             IF stats[i].model_id = model_id
             THEN [stats[i] EXCEPT !.sales_count = @ + 1,
                                   !.total_price = @ + sale_price]
             ELSE stats[i]]
    ELSE Append(stats, [model_id |-> model_id, sales_count |-> 1,
                        total_price |-> sale_price])

\* is_deleted = sale_data_str.startswith('DELETED_')
is_deleted_never(sale_data_str) == FALSE

is_deleted(sale_data_str) == startswith(sale_data_str, DELETED)

\* one turn of the statistics loop: the line is counted (no `continue`)
stats_line_counts(S, sale_data_str) ==
    /\ ~is_blank(sale_data_str)
    /\ ~is_deleted(sale_data_str)
    /\ LET parts == split(sale_data_str)
       IN  /\ Len(parts) = 4
           /\ is_number(parts[3])
           /\ index_has(S.cars_index, parts[2])
           /\ LET car_parts ==
                      split(read_fixed_length_line(
                                S.cars_file,
                                index_get(S.cars_index, parts[2])))
              IN  Len(car_parts) >= 2 /\ is_number(car_parts[2])

\* the model id the counted line adds to
stats_line_model(S, sale_data_str) ==
    to_number(split(read_fixed_length_line(
                        S.cars_file,
                        index_get(S.cars_index, split(sale_data_str)[2])))[2])

\* for line_num in range(total_sales_lines)
RECURSIVE collect_stats(_, _, _)
collect_stats(S, line_num, stats) ==
    IF line_num >= get_file_line_count(S.sales_file) THEN stats
    ELSE LET sale_data_str == read_fixed_length_line(S.sales_file, line_num)
         IN  IF stats_line_counts(S, sale_data_str)
             THEN collect_stats(
                      S,
                      line_num + 1,
                      stats_add(stats, stats_line_model(S, sale_data_str),
                                to_number(split(sale_data_str)[3])))
             ELSE collect_stats(S, line_num + 1, stats)

model_stats(S) == collect_stats(S, 0, <<>>)

\* the sort key (sales_count, avg_price) of a is greater than that of b;
\* avg_price = total_price / sales_count is compared as a fraction
key_greater_count_only(a, b) == a.sales_count > b.sales_count

key_greater(a, b) ==
    \/ a.sales_count > b.sales_count
    \/ /\ a.sales_count = b.sales_count
       /\ a.total_price * b.sales_count > b.total_price * a.sales_count

\* list.sort(key=..., reverse=True): descending, equal keys keep their order
RECURSIVE sort_reverse(_)
sort_reverse(seq) ==
    IF Len(seq) = 0 THEN <<>>
    ELSE LET m == CHOOSE i \in 1..Len(seq) :
                      /\ \A j \in 1..Len(seq) : ~key_greater(seq[j], seq[i])
                      /\ \A j \in 1..(i - 1) : key_greater(seq[i], seq[j])
         IN  <<seq[m]>> \o
             sort_reverse([k \in 1..(Len(seq) - 1) |->
                              IF k < m THEN seq[k] ELSE seq[k + 1]])

models_for_sorting(S) == sort_reverse(model_stats(S))

\* models_for_sorting[:3]
top_models(S) ==
    LET sorted == models_for_sorting(S)
    IN  SubSeq(sorted, 1, IF Len(sorted) < TOP_N THEN Len(sorted) ELSE TOP_N)

\* the ModelSaleStats of one entry of top_models, or nothing (`continue`)
model_sale_stats(S, entry) ==
    IF ~index_has(S.models_index, str(entry.model_id)) THEN <<>>
    ELSE LET model_parts ==
                 split(read_fixed_length_line(
                           S.models_file,
                           index_get(S.models_index, str(entry.model_id))))
         IN  IF Len(model_parts) # 3 THEN <<>>
             ELSE <<[car_model_name |-> model_parts[2],
                     brand |-> model_parts[3],
                     sales_number |-> entry.sales_count]>>

RECURSIVE build_result(_, _)
build_result(S, entries) ==
    IF Len(entries) = 0 THEN <<>>
    ELSE model_sale_stats(S, entries[1]) \o build_result(S, Tail(entries))

top_models_by_sales(S) == build_result(S, top_models(S))

(***************************************************************************)
(* add_model and add_car step by step.  A call touches the disk four       *)
(* times: it loads the index and makes its checks, takes the size of the   *)
(* record file for the line number, writes the line, and saves the index   *)
(* it loaded with its own entry added.  Nothing is locked in between, so   *)
(* the steps of two callers may interleave, and a call may stop between    *)
(* two steps.  callers holds each caller's place and local values,         *)
(* whether a call ever began while another was under way, and the number  *)
(* of calls begun.                                                         *)
(***************************************************************************)
Callers == {1, 2}

Idle ==
    [pc |-> "idle", kind |-> "none", key |-> <<>>, data |-> <<>>,
     index |-> <<>>, line_number |-> 0]

NoCallers ==
    [call |-> [p \in Callers |-> Idle], overlapped |-> FALSE, started |-> 0]

\* the record file and the index of a kind of record
file_of(S, kind) == IF kind = "model" THEN S.models_file ELSE S.cars_file

index_of(S, kind) == IF kind = "model" THEN S.models_index ELSE S.cars_index

op_of(kind) == IF kind = "model" THEN "add_model" ELSE "add_car"

\* a call begins while another caller's call is under way
overlaps(p) == \E q \in Callers \ {p} : callers.call[q].pc # "idle"

\* the call begins: index loaded, checks made; err is the ValueError raised
begin(p, kind, key, data, err) ==
    /\ callers.call[p].pc = "idle"
    /\ callers' =
           [call |-> [callers.call EXCEPT
                          ![p] = IF err = "ok"
                                 THEN [pc |-> "loaded", kind |-> kind,
                                       key |-> key, data |-> data,
                                       index |-> index_of(Store, kind),
                                       line_number |-> 0]
                                 ELSE Idle],
            overlapped |-> callers.overlapped \/ overlaps(p),
            started |-> callers.started + 1]
    /\ last' = IF err = "ok" THEN last ELSE Called(op_of(kind), err)
    /\ UNCHANGED <<models_file, models_index, cars_file, cars_index,
                   sales_file, sales_index>>

\* add_model up to the append: index = self._load_index(...) and the checks
begin_add_model(p, model) ==
    begin(p, "model", model_key(model), model_data(model),
          IF model_id_taken(models_index, model_key(model))
          THEN "DuplicateKey"
          ELSE IF too_long(model_data(model)) THEN "LengthExceeded"
          ELSE "ok")

\* add_car up to the append: both indexes loaded and the checks
begin_add_car(p, car) ==
    begin(p, "car", car_key(car), car_data(car),
          IF index_has(cars_index, car_key(car)) THEN "DuplicateKey"
          ELSE IF model_missing(models_index, str(car.model))
          THEN "ReferenceNotFound"
          ELSE IF too_long(car_data(car)) THEN "LengthExceeded"
          ELSE "ok")

\* f.seek(0, 2); file_size = f.tell(); line_number = file_size // 501
next_line_number_zero(file) == 0

next_line_number(file) == file_size(file) \div LINE_TOTAL_LENGTH

measure(p) ==
    LET c == callers.call[p]
    IN  /\ c.pc = "loaded"
        /\ callers' =
               [callers EXCEPT
                    !.call[p] =
                        [c EXCEPT !.pc = "measured",
                                  !.line_number =
                                      next_line_number(
                                          file_of(Store, c.kind))]]
        /\ UNCHANGED <<models_file, models_index, cars_file, cars_index,
                       sales_file, sales_index, last>>

\* self._write_fixed_length_line(filepath, line_number, data)
write(p) ==
    LET c == callers.call[p]
        written == write_fixed_length_line(file_of(Store, c.kind),
                                           c.line_number, c.data)
    IN  /\ c.pc = "measured"
        /\ callers' = [callers EXCEPT !.call[p] = [c EXCEPT !.pc = "written"]]
        /\ models_file' = IF c.kind = "model" THEN written ELSE models_file
        /\ cars_file' = IF c.kind = "car" THEN written ELSE cars_file
        /\ UNCHANGED <<models_index, cars_index, sales_file, sales_index,
                       last>>

\* index[key] = line_number; self._save_index(index_file, index)
save(p) ==
    LET c == callers.call[p]
        saved == index_set(c.index, c.key, c.line_number)
    IN  /\ c.pc = "written"
        /\ callers' = [callers EXCEPT !.call[p] = Idle]
        /\ models_index' = IF c.kind = "model" THEN saved ELSE models_index
        /\ cars_index' = IF c.kind = "car" THEN saved ELSE cars_index
        /\ last' = Called(op_of(c.kind), "ok")
        /\ UNCHANGED <<models_file, cars_file, sales_file, sales_index>>

\* the call stops after the record append and before the index save
stop(p) ==
    LET c == callers.call[p]
    IN  /\ c.pc = "written"
        /\ callers' = [callers EXCEPT !.call[p] = Idle]
        /\ last' = Called(op_of(c.kind), "stopped")
        /\ UNCHANGED <<models_file, models_index, cars_file, cars_index,
                       sales_file, sales_index>>

(***************************************************************************)
(* Bounds and the inputs the calls are drawn from                          *)
(***************************************************************************)
MaxSales == 2

VIN_A == <<"A">>

VIN_B == <<"B">>

VIN_C == <<"C">>

SaleNumbers == {<<"S", "1">>, <<"S", "2">>}

Brand == <<"T">>

ModelName(id) == <<"X">> \o str(id)

\* with a one-digit id and Brand, a record of LINE_DATA_LENGTH + 1 characters
LongName == [i \in 1..(LINE_DATA_LENGTH - 3) |-> "x"]

NewModel(id, name) == [id |-> id, name |-> name, brand |-> Brand]

NewCar(vin, id, status) ==
    [vin |-> vin, model |-> id, price |-> 10, date_start |-> 1,
     status |-> status]

\* sale n of day n costs n
NewSale(n, vin) ==
    [sales_number |-> <<"S">> \o str(n), car_vin |-> vin,
     sales_date |-> n, cost |-> n]

\* model 2 is never added
ModelInputs == {NewModel(1, ModelName(1)), NewModel(1, LongName)}

CarInputs ==
    {NewCar(vin, 1, status) :
         vin \in {VIN_A, VIN_B}, status \in CarStatusValues}
    \cup {NewCar(VIN_B, 2, "available")}

\* a sale number that makes the record LINE_DATA_LENGTH + 1 characters long
LongNumber == [i \in 1..(LINE_DATA_LENGTH - 22) |-> "x"]

SaleInputs ==
    {NewSale(n, vin) : n \in 1..2, vin \in {VIN_A, VIN_B}}
    \cup {[NewSale(1, VIN_A) EXCEPT !.sales_number = LongNumber]}

RenameInputs ==
    {<<VIN_A, VIN_B>>, <<VIN_A, VIN_C>>, <<VIN_B, VIN_C>>, <<VIN_B, VIN_B>>}

Init == /\ models_file = <<>>
        /\ models_index = <<>>
        /\ cars_file = <<>>
        /\ cars_index = <<>>
        /\ sales_file = <<>>
        /\ sales_index = <<>>
        /\ last = Called("init", "ok")
        /\ callers = NoCallers

Next ==
    \/ \E model \in ModelInputs : add_model(model)
    \/ \E car \in CarInputs : add_car(car)
    \/ \E sale \in SaleInputs :
           get_file_line_count(sales_file) < MaxSales /\ sell_car(sale)
    \/ \E pair \in RenameInputs : update_vin(pair[1], pair[2])
    \/ \E sales_number \in SaleNumbers : revert_sale(sales_number)

Spec == Init /\ [][Next]_vars

(***************************************************************************)
(* A stocked store: the models 1..4 and one available car of each, as the  *)
(* calls add_model and add_car leave them; sales and reversals follow.     *)
(***************************************************************************)
MaxTopSales == 4

TopVINs == <<VIN_A, VIN_B, VIN_C, <<"D">>>>

TopModelIds == 1..Len(TopVINs)

EmptyStore ==
    [models_file |-> <<>>, models_index |-> <<>>,
     cars_file |-> <<>>, cars_index |-> <<>>,
     sales_file |-> <<>>, sales_index |-> <<>>]

\* the store after add_model and add_car of the models and cars 1..k
RECURSIVE stocked(_)
stocked(k) ==
    IF k = 0 THEN EmptyStore
    ELSE LET S == stocked(k - 1)
             m == add_model_outcome(S, NewModel(k, ModelName(k)))
             withModel == [S EXCEPT !.models_file = m.models_file,
                                    !.models_index = m.models_index]
             c == add_car_outcome(withModel,
                                  NewCar(TopVINs[k], k, "available"))
         IN  [withModel EXCEPT !.cars_file = c.cars_file,
                               !.cars_index = c.cars_index]

\* sale k is the sale of car k; the cars sell for 3, 2, 2 and 1
TopCosts == <<{3}, {2}, {2}, {1}>>

\* a VIN no car carries
VIN_E == <<"E">>

TopSaleInputs ==
    {[sales_number |-> <<"S">> \o str(k[1]), car_vin |-> TopVINs[k[1]],
      sales_date |-> 1, cost |-> k[2]] :
        k \in UNION {{<<id, cost>> : cost \in TopCosts[id]} :
                         id \in TopModelIds}}
    \cup {[sales_number |-> <<"S", "1">>, car_vin |-> VIN_E,
           sales_date |-> 1, cost |-> 1]}

\* the sale numbers revert_sale is called with
TopSaleNumbers == {<<"S", "1">>, <<"S", "2">>}

InitTop ==
    LET S == stocked(Len(TopVINs))
    IN  /\ models_file = S.models_file
        /\ models_index = S.models_index
        /\ cars_file = S.cars_file
        /\ cars_index = S.cars_index
        /\ sales_file = S.sales_file
        /\ sales_index = S.sales_index
        /\ last = Called("add_car", "ok")
        /\ callers = NoCallers

NextTop ==
    \/ \E sale \in TopSaleInputs :
           get_file_line_count(sales_file) < MaxTopSales /\ sell_car(sale)
    \/ \E sales_number \in TopSaleNumbers : revert_sale(sales_number)

SpecTop == InitTop /\ [][NextTop]_vars

(***************************************************************************)
(* Records at the capacity of a line: a model, a car and a sale whose      *)
(* records are LINE_DATA_LENGTH characters long, the same one character    *)
(* longer, and a short one of each.                                        *)
(***************************************************************************)
MaxLenSales == 2

Filler(n) == [i \in 1..n |-> "x"]

\* model id with a name that makes the record len characters long
LenModel(id, len) ==
    NewModel(id, Filler(len - Len(model_data(NewModel(id, <<>>)))))

\* a car of model 1 with a VIN that makes the record len characters long
LenCar(len) ==
    NewCar(Filler(len - Len(car_data(NewCar(<<>>, 1, "available")))),
           1, "available")

\* a sale of car A with a number that makes the record len characters long
LenSale(len) ==
    [NewSale(1, VIN_A) EXCEPT
        !.sales_number =
            Filler(len - Len(sale_data([NewSale(1, VIN_A) EXCEPT
                                           !.sales_number = <<>>])))]

LenModelInputs ==
    {NewModel(1, ModelName(1)), LenModel(2, LINE_DATA_LENGTH),
     LenModel(3, LINE_DATA_LENGTH + 1)}

LenCarInputs ==
    {NewCar(VIN_A, 1, "available"), LenCar(LINE_DATA_LENGTH),
     LenCar(LINE_DATA_LENGTH + 1)}

LenSaleInputs ==
    {NewSale(1, VIN_A), LenSale(LINE_DATA_LENGTH),
     LenSale(LINE_DATA_LENGTH + 1)}

LenSaleNumbers == {sale.sales_number : sale \in LenSaleInputs}

NextLen ==
    \/ \E model \in LenModelInputs : add_model(model)
    \/ \E car \in LenCarInputs : add_car(car)
    \/ \E sale \in LenSaleInputs :
           get_file_line_count(sales_file) < MaxLenSales /\ sell_car(sale)
    \/ \E sales_number \in LenSaleNumbers : revert_sale(sales_number)

SpecLen == Init /\ [][NextLen]_vars

(***************************************************************************)
(* The record-file calls alone: models_file holds the bytes of one record  *)
(* file, lines are appended and lines below the line count are rewritten.  *)
(***************************************************************************)
MaxRecords == 3

\* a short text, a text with a two-byte character, one that ends in a fill
\* character, one of LINE_DATA_LENGTH characters and one a character longer
FileData ==
    {<<"a">>, <<"b", "U+042F">>, <<"c", " ">>,
     Filler(LINE_DATA_LENGTH), Filler(LINE_DATA_LENGTH + 1)}

\* _write_fixed_length_line(models.txt, line_number, data)
write_line(line_number, data) ==
    /\ IF write_raises(data)
       THEN /\ models_file' = models_file
            /\ last' = Called("_write_fixed_length_line", "LengthExceeded")
       ELSE /\ models_file' =
                   utf8_write_fixed_length_line(models_file, line_number,
                                                data)
            /\ last' = Called("_write_fixed_length_line", "ok")
    /\ UNCHANGED <<callers, models_index, cars_file, cars_index, sales_file,
                   sales_index>>

\* _append_fixed_length_line(models.txt, data)
append_line(data) ==
    /\ IF write_raises(data)
       THEN /\ models_file' = models_file
            /\ last' = Called("_append_fixed_length_line", "LengthExceeded")
       ELSE /\ models_file' =
                   utf8_append_fixed_length_line(models_file, data)
            /\ last' = Called("_append_fixed_length_line", "ok")
    /\ UNCHANGED <<callers, models_index, cars_file, cars_index, sales_file,
                   sales_index>>

NextFile ==
    \/ \E data \in FileData :
           /\ utf8_get_file_line_count(models_file) < MaxRecords
           /\ append_line(data)
    \/ \E data \in FileData :
           \E line_number \in
                  0..(utf8_get_file_line_count(models_file) - 1) :
               write_line(line_number, data)

SpecFile == Init /\ [][NextFile]_vars

(***************************************************************************)
(* Two callers adding cars of model 1, their steps interleaved             *)
(***************************************************************************)
MaxCalls == 3

RaceCars == {NewCar(vin, 1, "available") : vin \in {VIN_A, VIN_B, VIN_C}}

InitRace ==
    LET S == add_model_outcome(EmptyStore, NewModel(1, ModelName(1)))
    IN  /\ models_file = S.models_file
        /\ models_index = S.models_index
        /\ cars_file = <<>>
        /\ cars_index = <<>>
        /\ sales_file = <<>>
        /\ sales_index = <<>>
        /\ last = Called("add_model", "ok")
        /\ callers = NoCallers

NextRace ==
    \/ \E p \in Callers : \E car \in RaceCars :
           callers.started < MaxCalls /\ begin_add_car(p, car)
    \/ \E p \in Callers : measure(p)
    \/ \E p \in Callers : write(p)
    \/ \E p \in Callers : save(p)

SpecRace == InitRace /\ [][NextRace]_vars

(***************************************************************************)
(* One caller adding models and cars; a call can stop after its append     *)
(***************************************************************************)
MaxStopCalls == 4

StopModels == {NewModel(id, ModelName(id)) : id \in 1..2}

StopCars == {NewCar(VIN_A, 1, "available"), NewCar(VIN_B, 2, "available")}

NextStop ==
    \/ \E model \in StopModels :
           callers.started < MaxStopCalls /\ begin_add_model(1, model)
    \/ \E car \in StopCars :
           callers.started < MaxStopCalls /\ begin_add_car(1, car)
    \/ measure(1)
    \/ write(1)
    \/ save(1)
    \/ stop(1)

SpecStop == Init /\ [][NextStop]_vars

(***************************************************************************)
(* What a store holds, as the properties below read it                     *)
(***************************************************************************)
car_indexed(S, vin) == index_has(S.cars_index, vin)

\* the car stored at the record number the car index gives for vin
stored_car(S, vin) ==
    make_car(split(read_fixed_length_line(
                       S.cars_file, index_get(S.cars_index, vin))))

fits(data) == Len(data) <= LINE_DATA_LENGTH

\* the fields of sale record line_num
sale_fields(S, line_num) ==
    split(read_fixed_length_line(S.sales_file, line_num))

sale_lines(S) == 0..(Len(S.sales_file) - 1)

\* a sale record that carries no deletion marker
live_sale(S, line_num) == ~startswith(sale_fields(S, line_num)[1], DELETED)

(***************************************************************************)
(* C1: sell_car on a car whose stored status is available rewrites that    *)
(* car with status sold and returns it; sell_car on a car whose stored     *)
(* status is sold, whatever the sale number, fails with InvalidState and   *)
(* the car stays sold.  (Sales whose record fits the line.)                *)
(***************************************************************************)
C1_SellStep(sale) ==
    (/\ sell_car(sale)
     /\ fits(sale_data(sale))
     /\ car_indexed(Store, sale.car_vin)) =>
        LET before == stored_car(Store, sale.car_vin)
            post == Store'
        IN  /\ before.status = "available" =>
                /\ last'.err = "ok"
                /\ stored_car(post, sale.car_vin) =
                       [before EXCEPT !.status = "sold"]
                /\ sell_car_outcome(Store, sale).ret =
                       <<[before EXCEPT !.status = "sold"]>>
            /\ before.status = "sold" =>
                /\ last'.err = "InvalidState"
                /\ sell_car_outcome(Store, sale).ret = <<>>
                /\ stored_car(post, sale.car_vin) = before

C1_SellOnceThenInvalidState ==
    [][\A sale \in SaleInputs : C1_SellStep(sale)]_vars

\* a sold car has just refused a second sale: both sales are on file
C1_Witness ==
    /\ last = Called("sell_car", "InvalidState")
    /\ Len(sales_file) = 2
    /\ \E vin \in {VIN_A, VIN_B} :
           /\ car_indexed(Store, vin)
           /\ stored_car(Store, vin).status = "sold"
           /\ \A n \in sale_lines(Store) :
                  sale_fields(Store, n)[2] = vin /\ live_sale(Store, n)
(***************************************************************************)
(* C2 (as claimed): after a successful revert_sale(n) the car of the sale  *)
(* is stored as available, and revert_sale(n) made next fails with         *)
(* NotFound.                                                               *)
(***************************************************************************)
C2_RevertStep(sales_number) ==
    (revert_sale(sales_number) /\ last'.err = "ok") =>
        LET sale_vin ==
                sale_fields(Store, find_sale(Store, sales_number, 0))[2]
            post == Store'
        IN  /\ stored_car(post, sale_vin).status = "available"
            /\ revert_sale_outcome(post, sales_number).err = "NotFound"

C2_RevertedSaleUnmatchable ==
    [][\A sales_number \in SaleNumbers : C2_RevertStep(sales_number)]_vars

(***************************************************************************)
(* C3: add_model with an id that has an index entry, and add_car with a    *)
(* VIN that has an index entry, fail with DuplicateKey and change no file  *)
(* and no index.                                                           *)
(***************************************************************************)
C3_AddModelStep(model) ==
    (add_model(model) /\ index_has(models_index, model_key(model))) =>
        /\ last'.err = "DuplicateKey"
        /\ add_model_outcome(Store, model).ret = <<>>
        /\ Store' = Store

C3_AddCarStep(car) ==
    (add_car(car) /\ index_has(cars_index, car_key(car))) =>
        /\ last'.err = "DuplicateKey"
        /\ add_car_outcome(Store, car).ret = <<>>
        /\ Store' = Store

C3_DuplicateKeyLeavesStore ==
    [][/\ \A model \in ModelInputs : C3_AddModelStep(model)
       /\ \A car \in CarInputs : C3_AddCarStep(car)]_vars

\* a second add_car of a stored VIN has just been refused
C3_Witness ==
    /\ last = Called("add_car", "DuplicateKey")
    /\ \E car \in CarInputs : car_indexed(Store, car.vin)
    /\ Len(cars_file) = Len(cars_index)
    /\ Len(models_file) = 1

(***************************************************************************)
(* C4 (as claimed): sell_car with the number of a live sale record fails   *)
(* with DuplicateKey and leaves the sales file and the sales index as they *)
(* were, so the numbers of the live sale records are pairwise distinct.    *)
(***************************************************************************)
live_number(S, sales_number) ==
    \E n \in sale_lines(S) :
        live_sale(S, n) /\ sale_fields(S, n)[1] = sales_number

live_numbers_unique(S) ==
    \A n, k \in sale_lines(S) :
        (n # k /\ live_sale(S, n) /\ live_sale(S, k)) =>
            sale_fields(S, n)[1] # sale_fields(S, k)[1]

C4_SellStep(sale) ==
    (sell_car(sale) /\ live_number(Store, sale.sales_number)) =>
        /\ last'.err = "DuplicateKey"
        /\ UNCHANGED <<sales_file, sales_index>>
        /\ live_numbers_unique(Store')

C4_LiveSaleNumberRefused ==
    [][\A sale \in SaleInputs : C4_SellStep(sale)]_vars

(***************************************************************************)
(* C5: add_car of a VIN not yet indexed whose model id has no entry in the *)
(* model index fails with ReferenceNotFound; whatever the VIN, such an     *)
(* add_car writes nothing, and every car record of the car file names a    *)
(* model id that the model index holds.                                    *)
(***************************************************************************)
car_models_known(S) ==
    \A n \in 0..(Len(S.cars_file) - 1) :
        index_has(S.models_index,
                  split(read_fixed_length_line(S.cars_file, n))[2])

C5_AddCarStep(car) ==
    (add_car(car) /\ ~index_has(models_index, str(car.model))) =>
        /\ ~index_has(cars_index, car_key(car)) =>
               last'.err = "ReferenceNotFound"
        /\ last'.err # "ok"
        /\ add_car_outcome(Store, car).ret = <<>>
        /\ UNCHANGED <<cars_file, cars_index>>

C5_UnknownModelRefused ==
    [][/\ \A car \in CarInputs : C5_AddCarStep(car)
       /\ car_models_known(Store')]_vars

\* a car of an unknown model has just been refused while cars are stored
C5_Witness ==
    /\ last = Called("add_car", "ReferenceNotFound")
    /\ Len(cars_file) > 0
    /\ car_models_known(Store)
(***************************************************************************)
(* C6 (as claimed): for a car stored as sold, get_car_info(vin) takes the  *)
(* sale cost and date from the first live sale record, in record order,    *)
(* whose VIN is vin; a record that carries the deletion marker is never    *)
(* used.                                                                   *)
(***************************************************************************)
\* the live sale records of vin, as a set of record numbers
live_sales_of(S, vin) ==
    {n \in sale_lines(S) : live_sale(S, n) /\ sale_fields(S, n)[2] = vin}

first_of(lines) == CHOOSE n \in lines : \A k \in lines : n <= k

C6_InfoOf(S, vin) ==
    LET info == get_car_info(S, vin)
        live == live_sales_of(S, vin)
    IN  (info # <<>> /\ info[1].status = "sold") =>
            IF live = {}
            THEN info[1].sales_cost = <<>> /\ info[1].sales_date = <<>>
            ELSE LET fields == sale_fields(S, first_of(live))
                 IN  /\ info[1].sales_cost = <<to_number(fields[3])>>
                     /\ info[1].sales_date = <<fromisoformat(fields[4])>>

C6_InfoFromFirstLiveSale ==
    \A vin \in {VIN_A, VIN_B, VIN_C} : C6_InfoOf(Store, vin)

(***************************************************************************)
(* C7 (as claimed): after a successful update_vin(old, new),               *)
(* get_car_info(new) has the non-VIN fields that get_car_info(old) had     *)
(* before the rename, and get_car_info(old) is absent.                     *)
(***************************************************************************)
C7_RenameStep(vin, new_vin) ==
    (update_vin(vin, new_vin) /\ last'.err = "ok") =>
        LET before == get_car_info(Store, vin)
            post == Store'
            after == get_car_info(post, new_vin)
        IN  /\ before # <<>>
            /\ after = <<[before[1] EXCEPT !.vin = new_vin]>>
            /\ get_car_info(post, vin) = <<>>

C7_RenameKeepsInfo ==
    [][\A pair \in RenameInputs : C7_RenameStep(pair[1], pair[2])]_vars

(***************************************************************************)
(* C8: a successful update_vin(old, new) rewrites the car at its record    *)
(* number with only the VIN replaced, drops old from the car index and     *)
(* maps new to that record number; the other index entries, the other car  *)
(* records and the record count stay.  It fails with DuplicateKey when new *)
(* is indexed, and with NotFound when new is not indexed and old is not,   *)
(* and then writes nothing.                                                *)
(***************************************************************************)
\* the key -> record number mapping an index document holds
index_map(index) ==
    [key \in {index[i].key : i \in 1..Len(index)} |-> index_get(index, key)]

C8_RenameStep(vin, new_vin) ==
    update_vin(vin, new_vin) =>
        IF index_has(cars_index, new_vin)
        THEN last'.err = "DuplicateKey" /\ UNCHANGED <<cars_file, cars_index>>
        ELSE IF ~index_has(cars_index, vin)
        THEN last'.err = "NotFound" /\ UNCHANGED <<cars_file, cars_index>>
        ELSE
        LET n == index_get(cars_index, vin)
            before == stored_car(Store, vin)
            renamed == [before EXCEPT !.vin = new_vin]
            post == Store'
            old_map == index_map(cars_index)
            new_map == index_map(post.cars_index)
        IN  fits(car_data(renamed)) =>
            /\ last'.err = "ok"
            /\ update_vin_outcome(Store, vin, new_vin).ret = <<renamed>>
            /\ Len(post.cars_file) = Len(cars_file)
            /\ read_fixed_length_line(post.cars_file, n) = car_data(renamed)
            /\ \A k \in 1..Len(cars_file) :
                   k # n + 1 => post.cars_file[k] = cars_file[k]
            /\ Len(post.cars_index) = Len(cars_index)
            /\ DOMAIN new_map = (DOMAIN old_map \ {vin}) \cup {new_vin}
            /\ new_map[new_vin] = n
            /\ \A key \in DOMAIN old_map \ {vin} : new_map[key] = old_map[key]

C8_RenameInPlace ==
    [][\A pair \in RenameInputs : C8_RenameStep(pair[1], pair[2])]_vars

\* a car has just been renamed to C while another car is stored
C8_Witness ==
    /\ last = Called("update_vin", "ok")
    /\ Len(cars_file) = 2
    /\ car_indexed(Store, VIN_C)
    /\ \E vin \in {VIN_A, VIN_B} :
           /\ car_indexed(Store, vin)
           /\ index_get(cars_index, vin) # index_get(cars_index, VIN_C)

(***************************************************************************)
(* C9: top_models_by_sales counts, for each model id, exactly the sale     *)
(* records that are not blank, carry no deletion marker and whose VIN the  *)
(* car index resolves to a car of that model; a record revert_sale has     *)
(* marked stays marked, and is in no count from then on.                   *)
(***************************************************************************)
\* the sale records the claim counts for model_id, by record number
counted_sales(S, model_id) ==
    {n \in sale_lines(S) :
        LET data == read_fixed_length_line(S.sales_file, n)
        IN  /\ \E i \in 1..Len(data) : data[i] \notin Whitespace
            /\ ~startswith(data, DELETED)
            /\ car_indexed(S, split(data)[2])
            /\ stored_car(S, split(data)[2]).model = model_id}

\* the count the statistics hold for model_id, 0 when they hold none
stats_count(stats, model_id) ==
    IF \E i \in 1..Len(stats) : stats[i].model_id = model_id
    THEN (CHOOSE e \in {stats[i] : i \in 1..Len(stats)} :
              e.model_id = model_id).sales_count
    ELSE 0

marked_sales(S) ==
    {n \in sale_lines(S) :
        startswith(read_fixed_length_line(S.sales_file, n), DELETED)}

C9_CountsAgree ==
    LET stats == model_stats(Store)
    IN  /\ \A i \in 1..Len(stats) : stats[i].model_id \in TopModelIds
        /\ \A model_id \in TopModelIds :
               stats_count(stats, model_id) =
                   Cardinality(counted_sales(Store, model_id))

C9_RevertStep(sales_number) ==
    (last' = Called("revert_sale", "ok") /\ revert_sale(sales_number)) =>
        LET n == find_sale(Store, sales_number, 0)
            post == Store'
        IN  /\ n \in marked_sales(post)
            /\ \A model_id \in TopModelIds :
                   /\ n \notin counted_sales(post, model_id)
                   /\ counted_sales(post, model_id) =
                          counted_sales(Store, model_id) \ {n}

C9_Step ==
    /\ marked_sales(Store) \subseteq marked_sales(Store')
    /\ \A sales_number \in TopSaleNumbers : C9_RevertStep(sales_number)

C9_CountsLiveResolvedSales == []C9_CountsAgree /\ [][C9_Step]_vars

\* a sale has just been reverted while other sales stay counted, and one
\* sale on file names a VIN the car index does not hold
C9_Witness ==
    /\ last = Called("revert_sale", "ok")
    /\ marked_sales(Store) # {}
    /\ \E model_id \in TopModelIds : counted_sales(Store, model_id) # {}
    /\ \E n \in sale_lines(Store) :
           /\ n \notin marked_sales(Store)
           /\ ~car_indexed(Store, sale_fields(Store, n)[2])

(***************************************************************************)
(* C10: top_models_by_sales returns min(3, number of models with a counted *)
(* sale) entries, of distinct models, ordered by sale count descending and *)
(* among equal counts by average sale cost (total / count) descending; no  *)
(* model left out ranks strictly above a returned one.                     *)
(***************************************************************************)
\* the sum of the costs of the sale records in lines
RECURSIVE cost_sum(_, _)
cost_sum(S, lines) ==
    IF lines = {} THEN 0
    ELSE LET n == CHOOSE x \in lines : TRUE
         IN  to_number(sale_fields(S, n)[3]) + cost_sum(S, lines \ {n})

\* the rank of a model: its sale count and the total of its sale costs
rank_of(S, model_id) ==
    LET lines == counted_sales(S, model_id)
    IN  [count |-> Cardinality(lines), total |-> cost_sum(S, lines)]

\* rank a is strictly above rank b; the averages total / count are compared
\* as fractions
ranks_above(a, b) ==
    \/ a.count > b.count
    \/ /\ a.count = b.count
       /\ a.total * b.count > b.total * a.count

sold_models(S) == {id \in TopModelIds : counted_sales(S, id) # {}}

\* the model id an entry of the result names
entry_model(entry) ==
    CHOOSE id \in TopModelIds : ModelName(id) = entry.car_model_name

C10_TopThreeInOrder ==
    LET result == top_models_by_sales(Store)
        sold == sold_models(Store)
        rank == [id \in TopModelIds |-> rank_of(Store, id)]
        ids == [i \in 1..Len(result) |-> entry_model(result[i])]
    IN  /\ Len(result) <= 3
        /\ Len(result) =
               IF Cardinality(sold) < 3 THEN Cardinality(sold) ELSE 3
        /\ \A i \in 1..Len(result) :
               /\ \E id \in TopModelIds :
                      ModelName(id) = result[i].car_model_name
               /\ ids[i] \in sold
               /\ result[i].brand = Brand
               /\ result[i].sales_number = rank[ids[i]].count
        /\ \A i, j \in 1..Len(result) :
               i < j => /\ ids[i] # ids[j]
                        /\ ~ranks_above(rank[ids[j]], rank[ids[i]])
        /\ \A id \in sold \ {ids[i] : i \in 1..Len(result)} :
               \A i \in 1..Len(result) : ~ranks_above(rank[id], rank[ids[i]])

\* four models have counted sales, three are returned, and the first two
\* returned have one sale each at different averages
C10_Witness ==
    LET result == top_models_by_sales(Store)
    IN  /\ last = Called("sell_car", "ok")
        /\ Cardinality(sold_models(Store)) = 4
        /\ Len(result) = 3
        /\ result[1].sales_number = result[2].sales_number
        /\ ranks_above(rank_of(Store, entry_model(result[1])),
                       rank_of(Store, entry_model(result[2])))

(***************************************************************************)
(* C11: get_cars(status) returns exactly the cars stored in the car file   *)
(* whose status is the one asked for, each record once, in record-number   *)
(* order; after update_vin the car is reported under its new VIN, after    *)
(* sell_car as sold and after revert_sale as available.                    *)
(***************************************************************************)
\* the record numbers of the car records stored with status
records_with(S, status) ==
    {n \in 0..(Len(S.cars_file) - 1) :
        split(read_fixed_length_line(S.cars_file, n))[5] =
            status_value(status)}

\* the record number of the i-th entry of cars: the record with its VIN
record_of(S, car) ==
    CHOOSE n \in 0..(Len(S.cars_file) - 1) :
        split(read_fixed_length_line(S.cars_file, n))[1] = car.vin

C11_ListOf(S, status) ==
    LET cars == get_cars(S, status)
        held == records_with(S, status)
    IN  /\ Len(cars) = Cardinality(held)
        /\ \A i \in 1..Len(cars) :
               /\ record_of(S, cars[i]) \in held
               /\ car_data(cars[i]) =
                      read_fixed_length_line(S.cars_file,
                                             record_of(S, cars[i]))
        /\ \A i, j \in 1..Len(cars) :
               i < j => record_of(S, cars[i]) < record_of(S, cars[j])

C11_ListsAgree == \A status \in CarStatusValues : C11_ListOf(Store, status)

vins_listed(S, status) ==
    {get_cars(S, status)[i].vin : i \in 1..Len(get_cars(S, status))}

C11_Step ==
    LET post == Store'
    IN  /\ \A pair \in RenameInputs :
               (last' = Called("update_vin", "ok")
                /\ update_vin(pair[1], pair[2])) =>
                   \A status \in CarStatusValues :
                       /\ pair[1] \notin vins_listed(post, status)
                       /\ pair[2] \in vins_listed(post, status)
                              <=> pair[1] \in vins_listed(Store, status)
        /\ \A sale \in SaleInputs :
               (last' = Called("sell_car", "ok") /\ sell_car(sale)) =>
                   /\ sale.car_vin \in vins_listed(post, "sold")
                   /\ sale.car_vin \notin vins_listed(post, "available")
        /\ \A sales_number \in SaleNumbers :
               (last' = Called("revert_sale", "ok")
                /\ revert_sale(sales_number)) =>
                   LET sale_vin ==
                           sale_fields(Store,
                                       find_sale(Store, sales_number, 0))[2]
                   IN  /\ sale_vin \in vins_listed(post, "available")
                       /\ sale_vin \notin vins_listed(post, "sold")

C12_SortedByVin ==
    \A status \in CarStatusValues :
        LET cars == get_cars(Store, status)
        IN  \A i, j \in 1..Len(cars) :
                i < j => text_less(cars[i].vin, cars[j].vin)

(***************************************************************************)
(* C13 (as claimed): after a successful revert_sale(n) the sales index     *)
(* holds no entry keyed by n, and every other entry of the sales index is  *)
(* as it was.                                                              *)
(***************************************************************************)
C13_RevertStep(sales_number) ==
    (last' = Called("revert_sale", "ok") /\ revert_sale(sales_number)) =>
        LET post == Store'
            old_map == index_map(sales_index)
            new_map == index_map(post.sales_index)
        IN  /\ ~index_has(post.sales_index, sales_number)
            /\ DOMAIN new_map = DOMAIN old_map \ {sales_number}
            /\ \A key \in DOMAIN new_map : new_map[key] = old_map[key]

C13_RevertDropsIndexEntry ==
    [][\A sales_number \in SaleNumbers : C13_RevertStep(sales_number)]_vars

(***************************************************************************)
(* C14: revert_sale(n) fails with NotFound when no live sale record has    *)
(* the number n, with NotFound when the first live record numbered n names *)
(* a VIN the car index does not hold, and with InvalidState when the car   *)
(* of that VIN is not stored as sold; each of these failures leaves every  *)
(* record file and every index as it was.                                  *)
(***************************************************************************)
\* the first live sale record numbered sales_number, by record number
first_live(S, sales_number) ==
    first_of({n \in sale_lines(S) :
                 live_sale(S, n) /\ sale_fields(S, n)[1] = sales_number})

\* how the claim has revert_sale(sales_number) fail, "none" when it does not
C14_Failure(S, sales_number) ==
    IF ~live_number(S, sales_number) THEN "NotFound"
    ELSE LET sale_vin == sale_fields(S, first_live(S, sales_number))[2]
         IN  IF ~car_indexed(S, sale_vin) THEN "NotFound"
             ELSE IF stored_car(S, sale_vin).status # "sold"
                  THEN "InvalidState"
                  ELSE "none"

C14_RevertStep(sales_number) ==
    (revert_sale(sales_number)
     /\ C14_Failure(Store, sales_number) # "none") =>
        /\ last'.err = C14_Failure(Store, sales_number)
        /\ revert_sale_outcome(Store, sales_number).ret = <<>>
        /\ Store' = Store

C14_RevertFailuresWriteNothing ==
    [][\A sales_number \in SaleNumbers : C14_RevertStep(sales_number)]_vars

\* revert_sale has just refused a live sale whose car is stored as
\* available, while another live sale names a VIN the car index lacks
C14_Witness ==
    /\ last = Called("revert_sale", "InvalidState")
    /\ \E n \in SaleNumbers :
           /\ live_number(Store, n)
           /\ C14_Failure(Store, n) = "InvalidState"
    /\ \E n \in SaleNumbers :
           /\ live_number(Store, n)
           /\ ~car_indexed(Store,
                           sale_fields(Store, first_live(Store, n))[2])

(***************************************************************************)
(* C15: a record of exactly LINE_DATA_LENGTH characters is accepted by     *)
(* add_model, add_car and sell_car and stored whole; one of                *)
(* LINE_DATA_LENGTH + 1 characters makes them fail with LengthExceeded     *)
(* with every file and index as it was; no stored record is a shortened    *)
(* input.  (Calls the key and model checks let through.)                   *)
(***************************************************************************)
\* the record the call appended is the last of the file and reads as data
appended_whole(file_before, file_after, data) ==
    /\ Len(file_after) = Len(file_before) + 1
    /\ SubSeq(file_after, 1, Len(file_before)) = file_before
    /\ read_fixed_length_line(file_after, Len(file_before)) = data
    /\ Len(file_after[Len(file_after)].data) = Len(data)

C15_AddModelStep(model) ==
    (add_model(model) /\ ~index_has(models_index, model_key(model))) =>
        LET post == Store'
        IN  IF fits(model_data(model))
            THEN /\ last'.err = "ok"
                 /\ appended_whole(models_file, post.models_file,
                                   model_data(model))
                 /\ index_has(post.models_index, model_key(model))
            ELSE last'.err = "LengthExceeded" /\ post = Store

C15_AddCarStep(car) ==
    (/\ add_car(car)
     /\ ~car_indexed(Store, car_key(car))
     /\ index_has(models_index, str(car.model))) =>
        LET post == Store'
        IN  IF fits(car_data(car))
            THEN /\ last'.err = "ok"
                 /\ appended_whole(cars_file, post.cars_file, car_data(car))
                 /\ car_indexed(post, car_key(car))
            ELSE last'.err = "LengthExceeded" /\ post = Store

C15_SellStep(sale) ==
    sell_car(sale) =>
        LET post == Store'
        IN  IF fits(sale_data(sale))
            THEN /\ last'.err # "LengthExceeded"
                 /\ appended_whole(sales_file, post.sales_file,
                                   sale_data(sale))
                 /\ index_has(post.sales_index, sale_key(sale))
            ELSE last'.err = "LengthExceeded" /\ post = Store

C15_Step ==
    /\ \A model \in LenModelInputs : C15_AddModelStep(model)
    /\ \A car \in LenCarInputs : C15_AddCarStep(car)
    /\ \A sale \in LenSaleInputs : C15_SellStep(sale)

\* the records of a file, as read
records_of(file) ==
    {read_fixed_length_line(file, n) : n \in 0..(Len(file) - 1)}

C15_NothingTruncated ==
    /\ records_of(models_file) \subseteq
           {model_data(model) : model \in LenModelInputs}
    /\ records_of(cars_file) \subseteq
           {car_data([car EXCEPT !.status = status]) :
                car \in LenCarInputs, status \in CarStatusValues}
    /\ records_of(sales_file) \subseteq
           {sale_data(sale) : sale \in LenSaleInputs}
           \cup {DELETED \o sale_data(sale) : sale \in LenSaleInputs}

C15_CapacityAcceptedOverCapacityRefused ==
    []C15_NothingTruncated /\ [][C15_Step]_vars

\* each file holds a record of LINE_DATA_LENGTH characters and the call
\* just made was refused for a record one character longer
C15_Witness ==
    /\ last.err = "LengthExceeded"
    /\ last.op \in {"add_model", "add_car", "sell_car"}
    /\ \E data \in records_of(models_file) : Len(data) = LINE_DATA_LENGTH
    /\ \E data \in records_of(cars_file) : Len(data) = LINE_DATA_LENGTH
    /\ \E data \in records_of(sales_file) : Len(data) = LINE_DATA_LENGTH

(***************************************************************************)
(* C16 (as claimed): for every record number n below the line count and    *)
(* every data of at most LINE_DATA_LENGTH characters that does not end in  *)
(* a fill character, after write(file, n, data) read(file, n) is data, the *)
(* content read at every other record number is what it was, and the line *)
(* count is what it was.                                                   *)
(***************************************************************************)
C16_WriteStep(line_number, data) ==
    (/\ write_line(line_number, data)
     /\ Len(data) <= LINE_DATA_LENGTH
     /\ (Len(data) > 0 => data[Len(data)] \notin Whitespace)) =>
        /\ utf8_read_fixed_length_line(models_file', line_number) =
               [err |-> FALSE, text |-> data]
        /\ \A m \in 0..(utf8_get_file_line_count(models_file) - 1) :
               m # line_number =>
                   utf8_read_fixed_length_line(models_file', m) =
                       utf8_read_fixed_length_line(models_file, m)
        /\ utf8_get_file_line_count(models_file') =
               utf8_get_file_line_count(models_file)

C16_WriteReadRoundTrip ==
    [][\A data \in FileData :
           \A line_number \in
                  0..(utf8_get_file_line_count(models_file) - 1) :
               C16_WriteStep(line_number, data)]_vars

(***************************************************************************)
(* C17: sell_car appends and indexes the sale before it looks up the car:  *)
(* a sell_car that fails with NotFound (VIN not in the car index) or with  *)
(* InvalidState (car stored as sold) leaves car file and car index as they *)
(* were, while the sales file has one more record, live and holding that   *)
(* sale, and the sales index maps the sale number to it.                   *)
(***************************************************************************)
C17_SellStep(sale) ==
    (sell_car(sale) /\ fits(sale_data(sale))) =>
        LET post == Store'
            n == Len(sales_file)
        IN  /\ ~car_indexed(Store, sale.car_vin) => last'.err = "NotFound"
            /\ (/\ car_indexed(Store, sale.car_vin)
                /\ stored_car(Store, sale.car_vin).status = "sold") =>
                   last'.err = "InvalidState"
            /\ last'.err \in {"NotFound", "InvalidState"} =>
                   /\ post.cars_file = cars_file
                   /\ post.cars_index = cars_index
                   /\ Len(post.sales_file) = n + 1
                   /\ SubSeq(post.sales_file, 1, n) = sales_file
                   /\ read_fixed_length_line(post.sales_file, n) =
                          sale_data(sale)
                   /\ live_sale(post, n)
                   /\ index_get(post.sales_index, sale.sales_number) = n
                   /\ sell_car_outcome(Store, sale).ret = <<>>

C17_FailedSaleStaysOnFile ==
    [][\A sale \in SaleInputs : C17_SellStep(sale)]_vars

\* a sale of a VIN the car index lacks has just been refused, and its
\* record is the last of the sales file, after the record of a sale of a
\* car that is stored as sold
C17_Witness ==
    /\ last = Called("sell_car", "NotFound")
    /\ Len(sales_file) = 2
    /\ ~car_indexed(Store, sale_fields(Store, 1)[2])
    /\ live_sale(Store, 1)
    /\ car_indexed(Store, sale_fields(Store, 0)[2])
    /\ stored_car(Store, sale_fields(Store, 0)[2]).status = "sold"

(***************************************************************************)
(* C18: sell_car and revert_sale rewrite the car in place: the car keeps   *)
(* its record number, VIN, model id, price and start date, only the status *)
(* changes; the car index, the record count of the car file, every other   *)
(* car record, the model file and the model index are as they were.        *)
(***************************************************************************)
\* the car file after the step differs from the one before only in the
\* status of the car vin, which is now status
C18_OnlyStatus(vin, status) ==
    LET post == Store'
        n == index_get(cars_index, vin)
        before == stored_car(Store, vin)
    IN  /\ post.cars_index = cars_index
        /\ post.models_file = models_file
        /\ post.models_index = models_index
        /\ Len(post.cars_file) = Len(cars_file)
        /\ \A k \in 1..Len(cars_file) :
               k # n + 1 => post.cars_file[k] = cars_file[k]
        /\ index_get(post.cars_index, vin) = n
        /\ stored_car(post, vin) = [before EXCEPT !.status = status]
        /\ stored_car(post, vin).vin = before.vin
        /\ stored_car(post, vin).model = before.model
        /\ stored_car(post, vin).price = before.price
        /\ stored_car(post, vin).date_start = before.date_start
        /\ read_fixed_length_line(post.cars_file, n) =
               car_data([before EXCEPT !.status = status])

C18_SellStep(sale) ==
    (last' = Called("sell_car", "ok") /\ sell_car(sale)) =>
        /\ C18_OnlyStatus(sale.car_vin, "sold")
        /\ stored_car(Store, sale.car_vin).status = "available"

C18_RevertStep(sales_number) ==
    (last' = Called("revert_sale", "ok") /\ revert_sale(sales_number)) =>
        LET sale_vin ==
                sale_fields(Store, find_sale(Store, sales_number, 0))[2]
        IN  /\ C18_OnlyStatus(sale_vin, "available")
            /\ stored_car(Store, sale_vin).status = "sold"

C18_Step ==
    /\ \A sale \in SaleInputs : C18_SellStep(sale)
    /\ \A sales_number \in SaleNumbers : C18_RevertStep(sales_number)

C18_StatusRewrittenInPlace == [][C18_Step]_vars

\* the car at record 1 of two has been sold and its sale has just been
\* reverted
C18_Witness ==
    /\ last = Called("revert_sale", "ok")
    /\ Len(cars_file) = 2
    /\ \E n \in marked_sales(Store) :
           /\ car_indexed(Store, sale_fields(Store, n)[2])
           /\ index_get(cars_index, sale_fields(Store, n)[2]) = 1
           /\ stored_car(Store, sale_fields(Store, n)[2]).status =
                  "available"

(***************************************************************************)
(* C19 (as claimed): after any sequence of add_model, add_car of available *)
(* cars, sell_car and revert_sale calls, an indexed car is stored as sold  *)
(* exactly when the sales file holds exactly one live record with its VIN, *)
(* and an available car has no live sale record.                           *)
(***************************************************************************)
C19_SoldIffOneLiveSale ==
    \A i \in 1..Len(TopVINs) :
        car_indexed(Store, TopVINs[i]) =>
            LET live == live_sales_of(Store, TopVINs[i])
            IN  /\ stored_car(Store, TopVINs[i]).status = "sold"
                       <=> Cardinality(live) = 1
                /\ stored_car(Store, TopVINs[i]).status = "available"
                       => live = {}

(***************************************************************************)
(* C20: after calls made one at a time, the model index and the car index  *)
(* agree with their record files: every indexed key maps to a record       *)
(* number below the line count of the file, the record there has the key   *)
(* as its first field, distinct keys map to distinct record numbers, and   *)
(* every record of the file is reached by exactly one index entry.         *)
(***************************************************************************)
index_agrees(index, file) ==
    /\ \A i \in 1..Len(index) :
           /\ index[i].value \in 0..(get_file_line_count(file) - 1)
           /\ split(read_fixed_length_line(file, index[i].value))[1] =
                  index[i].key
    /\ \A i, j \in 1..Len(index) :
           i # j => /\ index[i].key # index[j].key
                    /\ index[i].value # index[j].value
    /\ \A n \in 0..(get_file_line_count(file) - 1) :
           Cardinality({i \in 1..Len(index) : index[i].value = n}) = 1

C20_IndexesAgreeWithFiles ==
    /\ index_agrees(models_index, models_file)
    /\ index_agrees(cars_index, cars_file)

\* a car was renamed to C and a second car added after it, with a sale on
\* file
C20_Witness ==
    /\ last = Called("add_car", "ok")
    /\ Len(models_index) = 1
    /\ Len(cars_file) = 2
    /\ car_indexed(Store, VIN_C)
    /\ index_get(cars_index, VIN_C) = 0
    /\ Len(sales_file) > 0

(***************************************************************************)
(* C21: the record files only grow and marked sales are permanent: no call *)
(* lowers the line count of the model, car or sales file; a successful     *)
(* append gets the record number that was the line count before it; a sale *)
(* record that carries the DELETED_ marker keeps its record number and its *)
(* content in every later call.                                            *)
(***************************************************************************)
\* file_after is file_before and one more record, indexed under key
appended_at_count(file_before, file_after, index_after, key) ==
    /\ get_file_line_count(file_after) =
           get_file_line_count(file_before) + 1
    /\ SubSeq(file_after, 1, Len(file_before)) = file_before
    /\ index_get(index_after, key) = get_file_line_count(file_before)

C21_Step ==
    LET post == Store'
    IN  /\ get_file_line_count(post.models_file) >=
               get_file_line_count(models_file)
        /\ get_file_line_count(post.cars_file) >=
               get_file_line_count(cars_file)
        /\ get_file_line_count(post.sales_file) >=
               get_file_line_count(sales_file)
        /\ \A model \in ModelInputs :
               (last' = Called("add_model", "ok") /\ add_model(model)) =>
                   appended_at_count(models_file, post.models_file,
                                     post.models_index, model_key(model))
        /\ \A car \in CarInputs :
               (last' = Called("add_car", "ok") /\ add_car(car)) =>
                   appended_at_count(cars_file, post.cars_file,
                                     post.cars_index, car_key(car))
        /\ \A sale \in SaleInputs :
               (sell_car(sale) /\ fits(sale_data(sale))) =>
                   appended_at_count(sales_file, post.sales_file,
                                     post.sales_index, sale_key(sale))
        /\ \A n \in marked_sales(Store) :
               /\ n \in marked_sales(post)
               /\ post.sales_file[n + 1] = sales_file[n + 1]

C21_AppendOnlyMarksPermanent == [][C21_Step]_vars

\* a sale has just been appended after a marked record
C21_Witness ==
    /\ last.op = "sell_car"
    /\ 0 \in marked_sales(Store)
    /\ Len(sales_file) = 2
    /\ live_sale(Store, 1)

(***************************************************************************)
(* C22: with two callers whose file steps interleave, two add_car calls    *)
(* with distinct valid VINs can take the same record number, or one call's *)
(* index save can discard the other's entry, so that afterwards an indexed *)
(* VIN maps to a record that holds another VIN or a stored car has no      *)
(* index entry; when no call begins while another is under way, no such    *)
(* state is reached.                                                       *)
(***************************************************************************)
all_idle == \A p \in Callers : callers.call[p].pc = "idle"

\* an indexed VIN maps to a record that holds another VIN
vin_mismatch(S) ==
    \E i \in 1..Len(S.cars_index) :
        split(read_fixed_length_line(S.cars_file,
                                     S.cars_index[i].value))[1] #
            S.cars_index[i].key

\* a stored car has no index entry
car_unindexed(S) ==
    \E n \in 0..(Len(S.cars_file) - 1) :
        ~car_indexed(S, split(read_fixed_length_line(S.cars_file, n))[1])

C22_OneAtATimeConsistent ==
    (all_idle /\ ~callers.overlapped) =>
        /\ ~vin_mismatch(Store)
        /\ ~car_unindexed(Store)
        /\ index_agrees(cars_index, cars_file)

\* both callers took record number 0: the index maps one VIN to the record
\* that holds the other VIN
C22_Witness ==
    /\ all_idle
    /\ callers.overlapped
    /\ callers.started = 2
    /\ last = Called("add_car", "ok")
    /\ Len(cars_file) = 1
    /\ vin_mismatch(Store)

\* one caller's index save discarded the other's entry: two cars are
\* stored and one of them has no index entry
C22_WitnessLostEntry ==
    /\ all_idle
    /\ callers.overlapped
    /\ callers.started = 2
    /\ Len(cars_file) = 2
    /\ Len(cars_index) = 1
    /\ car_unindexed(Store)

(***************************************************************************)
(* C23: when an add_model or add_car call stops after its record append    *)
(* and before its index save, the record file holds a record whose key the *)
(* index does not have; a later add of that key is not refused as a        *)
(* duplicate, and its append puts one more record with that key in the     *)
(* file.                                                                   *)
(***************************************************************************)
records_keyed(file, key) ==
    {n \in 0..(Len(file) - 1) :
         split(read_fixed_length_line(file, n))[1] = key}

unlisted(index, key) == \A i \in 1..Len(index) : index[i].key # key

\* the file of the kind holds the key and the index of the kind does not
orphaned(S, kind, key) ==
    /\ records_keyed(file_of(S, kind), key) # {}
    /\ unlisted(index_of(S, kind), key)

\* the call of caller 1 has passed its checks
accepted == callers'.call[1].pc = "loaded" /\ last' = last

C23_Step ==
    LET c == callers.call[1]
        post == Store'
    IN  /\ stop(1) =>
            /\ c.line_number \in records_keyed(file_of(post, c.kind), c.key)
            /\ orphaned(post, c.kind, c.key)
        /\ \A model \in StopModels :
               (/\ begin_add_model(1, model)
                /\ orphaned(Store, "model", model_key(model))) => accepted
        /\ \A car \in StopCars :
               (/\ begin_add_car(1, car)
                /\ orphaned(Store, "car", car_key(car))
                /\ ~unlisted(models_index, str(car.model))) => accepted
        /\ (write(1) /\ orphaned(Store, c.kind, c.key)) =>
               /\ Len(file_of(post, c.kind)) =
                      Len(file_of(Store, c.kind)) + 1
               /\ records_keyed(file_of(post, c.kind), c.key) =
                      records_keyed(file_of(Store, c.kind), c.key)
                          \cup {Len(file_of(Store, c.kind))}

C23_StoppedAddLeavesOrphan == [][C23_Step]_vars

\* add_model(1) stopped after its append, add_model(1) again went through:
\* two records of model 1, the index points at the second
C23_Witness ==
    /\ last = Called("add_model", "ok")
    /\ callers.started = 2
    /\ callers.call[1].pc = "idle"
    /\ records_keyed(models_file, str(1)) = {0, 1}
    /\ index_get(models_index, str(1)) = 1

(***************************************************************************)
(* C24 (as claimed): a sale stays attached to its car across a rename.     *)
(* When revert_sale(n) would succeed for a sale n on VIN old, then after a *)
(* successful update_vin(old, new) revert_sale(n) succeeds and returns the *)
(* car with VIN new and status available, and top_models_by_sales gives    *)
(* what it gave before the rename.                                         *)
(***************************************************************************)
C24_RenameStep(vin, new_vin) ==
    (update_vin(vin, new_vin) /\ last'.err = "ok") =>
        LET post == Store'
        IN  \A sales_number \in SaleNumbers :
                LET sale_line_number == find_sale(Store, sales_number, 0)
                IN  (/\ sale_line_number >= 0
                     /\ sale_fields(Store, sale_line_number)[2] = vin
                     /\ revert_sale_outcome(Store, sales_number).err = "ok")
                    =>
                    LET r == revert_sale_outcome(post, sales_number)
                    IN  /\ r.err = "ok"
                        /\ r.ret # <<>>
                        /\ r.ret[1].vin = new_vin
                        /\ r.ret[1].status = "available"
                        /\ top_models_by_sales(post) =
                               top_models_by_sales(Store)

C24_SaleFollowsRename ==
    [][\A pair \in RenameInputs : C24_RenameStep(pair[1], pair[2])]_vars

(***************************************************************************)
(* C25 (as claimed): revert_sale(n) succeeds whenever a live sale record   *)
(* with key n exists, its VIN has a car-index entry and that car is stored *)
(* as sold, whatever the length of the sale record that sell_car accepted. *)
(***************************************************************************)
C25_RevertStep(sales_number) ==
    LET sale_line_number == find_sale(Store, sales_number, 0)
    IN  (/\ revert_sale(sales_number)
         /\ sale_line_number >= 0
         /\ car_indexed(Store, sale_fields(Store, sale_line_number)[2])
         /\ stored_car(Store,
                       sale_fields(Store, sale_line_number)[2]).status =
                "sold")
        => last'.err = "ok"

C25_RevertSucceedsForAcceptedSale ==
    [][\A sales_number \in LenSaleNumbers : C25_RevertStep(sales_number)]_vars
====
